---- MODULE Spec2Model ----
(***************************************************************************)
(* Model of the chat-summary aggregation gateway                           *)
(* (vwency/resilient-scatter-gather).  One request is served by            *)
(* ChatSummaryHandler.ServeHTTP, which arms the shared deadline, validates *)
(* the two identifiers and runs the select-loop scatterGather: three       *)
(* goroutines call the dependency clients and deposit a serviceResult in   *)
(* the buffered channel `results`, while the handler goroutine selects     *)
(* between `results` and ctx.Done().                                       *)
(***************************************************************************)
EXTENDS Integers, Sequences, FiniteSets, TLC

VARIABLES
    method,                \* method of the inbound request
    userID, chatID,        \* query parameters of the inbound request
    httpPc,                \* position of ServeHTTP: "init", "gather", "done"
    ctxDone,               \* ctx.Done() is closed (deadline expired or cancel called)
    taskPc,                \* per dependency goroutine: "idle", "calling", "send", "done"
    taskResult,            \* per dependency goroutine: the serviceResult it built
    results,               \* the buffered channel of serviceResult
    userData, permissionsData, contextData, degraded, received,  \* accumulator of the loop
    sgPc,                  \* position of scatterGather: "idle", "loop", "returned"
    ret,                   \* the five values scatterGather returned
    statusCode, body,      \* the status written by WriteHeader and the value handed to the encoder
    encodeErr,             \* json Encode returned an error for that value
    headerWrites,          \* history: number of WriteHeader calls
    calls, sends,          \* history: per goroutine, client calls made and outcomes sent
    wgv,                   \* WaitGroup variant: the counter of wg, the closer goroutine, the channel's closed flag
    tm,                    \* the clock, the configured timeouts and the deadlines of the contexts
    backend,               \* history: per goroutine, what the call under the client wrapper returned
    runs, chans,           \* concurrent requests: the state of each run, and the channels
    recvOrder,             \* history: serviceName of every outcome the loop received, in order
    firedAt,               \* history: snapshot taken when the shared deadline expired
    via                    \* history: the return statement scatterGather left through

vars == <<method, userID, chatID, httpPc, ctxDone, taskPc, taskResult, results,
          userData, permissionsData, contextData, degraded, received,
          sgPc, ret, statusCode, body, encodeErr, headerWrites, calls, sends,
          wgv, tm, backend, runs, chans, recvOrder, firedAt, via>>

----------------------------------------------------------------------------
(* Bounds *)

\* number of distinct error values a dependency call may return
MaxErrs == 2

\* the clock runs from 0 to MaxTime
MaxTime == 4

\* the SLA of the handler is 1..MaxSLA ticks, a client's budget 1..MaxBudget
MaxSLA == 2
MaxBudget == 3

----------------------------------------------------------------------------
(* Values *)

\* Go nil, for pointers and for errors alike
Nil == <<>>

\* the loop bound of `for received < 3`
NumOutcomes == 3

\* a channel sized for the two critical outcomes only
ResultsCapCritical == NumOutcomes - 1

\* capacity of make(chan serviceResult, 3)
ResultsCap == 3

StatusOK == 200
StatusBadRequest == 400
StatusMethodNotAllowed == 405
StatusInternalServerError == 500

Services == {"UserService", "PermissionsService", "VectorMemoryService"}

Critical == {"UserService", "PermissionsService"}

\* the error values the dependency clients can return
Errs == {<<"backend error", i>> : i \in 1..MaxErrs}

\* the methods a request can carry
Methods == {"GET", "POST"}

\* the identifiers a request can carry; "" is a missing or empty parameter
UserIDs == {"", "user123"}
ChatIDs == {"", "chat1"}

\* http.StatusText
StatusText(code) ==
    CASE code = StatusOK -> "OK"
      [] code = StatusBadRequest -> "Bad Request"
      [] code = StatusInternalServerError -> "Internal Server Error"
      [] OTHER -> ""

\* fmt.Errorf(prefix + "%w", err) and fmt.Sprintf(prefix + "%v", err):
\* a message is the sequence of its parts
Errorf(prefix, err) == <<prefix>> \o err

\* the zero value of a serviceResult
NoResult ==
    [userData |-> Nil, permissionsData |-> Nil, contextData |-> Nil,
     err |-> Nil, serviceName |-> ""]

\* the zero value of the five return values
NoRet ==
    [userData |-> Nil, permissionsData |-> Nil, contextData |-> Nil,
     degraded |-> FALSE, err |-> Nil]

NotFired ==
    [fired |-> FALSE, cancelled |-> FALSE, pc |-> "idle", returned |-> {}, sent |-> {},
     recvOrder |-> <<>>, stored |-> {}]

----------------------------------------------------------------------------
(* The dependency clients: each call returns exactly one of payload, error *)

\* the (payload, err) pairs one call of the client of service s can return
ClientReturns(s, uid, cid) ==
    LET payload == CASE s = "UserService" -> <<"GetUserResponse", uid>>
                     [] s = "PermissionsService" -> <<"CheckAccessResponse", uid, cid>>
                     [] s = "VectorMemoryService" -> <<"GetContextResponse", cid>>
    IN  {[payload |-> payload, err |-> Nil]}
          \cup {[payload |-> Nil, err |-> e] : e \in Errs}

\* the serviceResult literal each goroutine builds from its call's return
MkResult(s, r) ==
    CASE s = "UserService" ->
           [NoResult EXCEPT !.userData = r.payload, !.err = r.err,
                            !.serviceName = "UserService"]
      [] s = "PermissionsService" ->
           [NoResult EXCEPT !.permissionsData = r.payload, !.err = r.err,
                            !.serviceName = "PermissionsService"]
      [] s = "VectorMemoryService" ->
           [NoResult EXCEPT !.contextData = r.payload, !.err = r.err,
                            !.serviceName = "VectorMemoryService"]

----------------------------------------------------------------------------
(* Deadlines.  A context is the time at which its Done channel closes;     *)
(* context.WithTimeout(parent, d) is never later than its parent.          *)

\* a context without deadline (the context of the inbound request)
NoDeadline == MaxTime + MaxSLA + MaxBudget + 1

Min(a, b) == IF a <= b THEN a ELSE b

\* context.WithTimeout(parent, d) called at time now
WithTimeout(parent, now, d) == Min(parent, now + d)

\* before main has built the clients and the handler
TmIdle ==
    [pc |-> "new", now |-> 0, sla |-> 0, budget |-> [s \in Services |-> 0],
     ctxDeadline |-> NoDeadline,
     callPc |-> [s \in Services |-> "idle"],
     callStart |-> [s \in Services |-> 0],
     callDeadline |-> [s \in Services |-> NoDeadline],
     callEnd |-> [s \in Services |-> 0]]

----------------------------------------------------------------------------
(* The production client wrappers of internal/services: each derives a     *)
(* call context from the one it is given, makes the one gRPC call, and     *)
(* maps what the call returned.                                            *)

\* the sentinel context.DeadlineExceeded
DeadlineExceeded == <<"context deadline exceeded">>

\* status.Error(code, msg)
StatusError(code, msg) == <<"rpc error", code, msg>>

\* &pb.GetContextResponse{Items: []*pb.ContextItem{}, TotalCount: 0}
EmptyContext == <<"GetContextResponse", <<>>, 0>>

\* no call made yet
NoInner == [payload |-> Nil, err |-> Nil, made |-> FALSE]

\* the (resp, err) pairs the call under the wrapper of s can return: the
\* response, or an error (a backend error, or the expiry of the call context)
\* with or without a response beside it
InnerReturns(s, uid, cid) ==
    LET ok == CHOOSE x \in ClientReturns(s, uid, cid) : x.err = Nil
    IN  {ok} \cup {[payload |-> q, err |-> e] :
                      q \in {Nil, ok.payload}, e \in Errs \cup {DeadlineExceeded}}

\* GetUser that answers a failed call with what the call left, and no error
GetUserSwallows(inner) ==
    [payload |-> inner.payload, err |-> Nil]

\* UserServiceClient.GetUser after the call returned (resp, err)
GetUser(inner) ==
    IF inner.err # Nil
    THEN IF inner.err = DeadlineExceeded
         THEN [payload |-> Nil, err |-> StatusError("Internal", "User service timeout")]
         ELSE [payload |-> Nil, err |-> inner.err]
    ELSE [payload |-> inner.payload, err |-> Nil]

\* PermissionsServiceClient.CheckAccess after the call returned (resp, err)
CheckAccess(inner) ==
    IF inner.err # Nil
    THEN IF inner.err = DeadlineExceeded
         THEN [payload |-> Nil, err |-> StatusError("Internal", "Permissions service timeout")]
         ELSE [payload |-> Nil, err |-> inner.err]
    ELSE [payload |-> inner.payload, err |-> Nil]

\* GetContext that hands the error of the call to its caller
GetContextPropagates(inner) ==
    IF inner.err # Nil
    THEN [payload |-> Nil, err |-> inner.err]
    ELSE [payload |-> inner.payload, err |-> Nil]

\* VectorMemoryServiceClient.GetContext after the call returned (resp, err)
GetContext(inner) ==
    IF inner.err # Nil
    THEN [payload |-> EmptyContext, err |-> Nil]
    ELSE [payload |-> inner.payload, err |-> Nil]

\* the wiring with a context wrapper that hands the error of the call on
WrapperVectorPropagates(s, inner) ==
    CASE s = "UserService" -> GetUser(inner)
      [] s = "PermissionsService" -> CheckAccess(inner)
      [] s = "VectorMemoryService" -> GetContextPropagates(inner)

\* the wrapper the goroutine of service s calls
Wrapper(s, inner) ==
    CASE s = "UserService" -> GetUser(inner)
      [] s = "PermissionsService" -> CheckAccess(inner)
      [] s = "VectorMemoryService" -> GetContext(inner)

----------------------------------------------------------------------------
(* The select loop of scatterGather, as functions of the loop's locals.    *)
(* A loop state is a record of the accumulator, pc, ret and via.           *)

LoopState ==
    [userData |-> userData, permissionsData |-> permissionsData,
     contextData |-> contextData, degraded |-> degraded,
     received |-> received, pc |-> sgPc, ret |-> ret, via |-> via]

\* a return statement of scatterGather
Return(a, u, p, c, d, e, stmt) ==
    [a EXCEPT !.pc = "returned", !.via = stmt,
              !.ret = [userData |-> u, permissionsData |-> p, contextData |-> c,
                       degraded |-> d, err |-> e]]

\* CaseUserService that forgets to store the payload
CaseUserServiceNoStore(a, result) ==
    IF result.err # Nil
    THEN Return(a, Nil, Nil, Nil, FALSE,
                Errorf("user service failed: ", result.err), "userErr")
    ELSE a

\* case "UserService"
CaseUserService(a, result) ==
    IF result.err # Nil
    THEN Return(a, Nil, Nil, Nil, FALSE,
                Errorf("user service failed: ", result.err), "userErr")
    ELSE [a EXCEPT !.userData = result.userData]

\* CasePermissionsService that logs the error and keeps collecting
CasePermissionsServiceNoAbort(a, result) ==
    IF result.err # Nil
    THEN [a EXCEPT !.permissionsData = Nil]
    ELSE [a EXCEPT !.permissionsData = result.permissionsData]

\* CasePermissionsService with the message of the UserService case
CasePermissionsServiceWrongName(a, result) ==
    IF result.err # Nil
    THEN Return(a, Nil, Nil, Nil, FALSE,
                Errorf("user service failed: ", result.err), "permErr")
    ELSE [a EXCEPT !.permissionsData = result.permissionsData]

\* CasePermissionsService that returns what the loop has stored beside the error
CasePermissionsServicePartial(a, result) ==
    IF result.err # Nil
    THEN Return(a, a.userData, Nil, a.contextData, a.degraded,
                Errorf("permissions service failed: ", result.err), "permErr")
    ELSE [a EXCEPT !.permissionsData = result.permissionsData]

\* case "PermissionsService"
CasePermissionsService(a, result) ==
    IF result.err # Nil
    THEN Return(a, Nil, Nil, Nil, FALSE,
                Errorf("permissions service failed: ", result.err), "permErr")
    ELSE [a EXCEPT !.permissionsData = result.permissionsData]

\* CaseVectorMemoryService that does not flag the failure
CaseVectorMemoryServiceNoFlag(a, result) ==
    IF result.err # Nil
    THEN [a EXCEPT !.contextData = Nil]
    ELSE [a EXCEPT !.contextData = result.contextData]

\* CaseVectorMemoryService that treats the context service as critical
CaseVectorMemoryServiceAborts(a, result) ==
    IF result.err # Nil
    THEN Return(a, Nil, Nil, Nil, FALSE,
                Errorf("vector service failed: ", result.err), "vecErr")
    ELSE [a EXCEPT !.contextData = result.contextData]

\* case "VectorMemoryService"
CaseVectorMemoryService(a, result) ==
    IF result.err # Nil
    THEN [a EXCEPT !.degraded = TRUE, !.contextData = Nil]
    ELSE [a EXCEPT !.contextData = result.contextData]

\* a switch that takes the n-th outcome to be that of the n-th goroutine started
ClassifyByPosition(a, result) ==
    LET a1 == [a EXCEPT !.received = @ + 1]
    IN  CASE a1.received = 1 -> CaseUserService(a1, result)
          [] a1.received = 2 -> CasePermissionsService(a1, result)
          [] a1.received = 3 -> CaseVectorMemoryService(a1, result)
          [] OTHER -> a1

\* case result := <-results: received++ and the switch on result.serviceName
Classify(a, result) ==
    LET a1 == [a EXCEPT !.received = @ + 1]
    IN  CASE result.serviceName = "UserService" -> CaseUserService(a1, result)
          [] result.serviceName = "PermissionsService" -> CasePermissionsService(a1, result)
          [] result.serviceName = "VectorMemoryService" -> CaseVectorMemoryService(a1, result)
          [] OTHER -> a1

\* LoopCheck with the loop bound off by one
LoopCheckOffByOne(a) ==
    IF a.pc = "loop" /\ ~(a.received < NumOutcomes - 1)
    THEN Return(a, a.userData, a.permissionsData, a.contextData, a.degraded, Nil, "loopEnd")
    ELSE a

\* a loop that stops collecting once both critical payloads are stored
LoopCheckCriticalOnly(a) ==
    IF a.pc = "loop" /\ (~(a.received < NumOutcomes)
                          \/ (a.userData # Nil /\ a.permissionsData # Nil))
    THEN Return(a, a.userData, a.permissionsData, a.contextData, a.degraded, Nil, "loopEnd")
    ELSE a

\* the loop condition `for received < 3` and the return after the loop
LoopCheck(a) ==
    IF a.pc = "loop" /\ ~(a.received < NumOutcomes)
    THEN Return(a, a.userData, a.permissionsData, a.contextData, a.degraded, Nil, "loopEnd")
    ELSE a

\* DeadlineArm that fails only when both critical payloads are missing
DeadlineArmBothMissing(a) ==
    IF a.userData = Nil /\ a.permissionsData = Nil
    THEN Return(a, Nil, Nil, Nil, FALSE, <<"critical services timeout">>, "timeout")
    ELSE LET a1 == [a EXCEPT !.degraded = TRUE]
         IN  Return(a1, a1.userData, a1.permissionsData, a1.contextData, a1.degraded,
                    Nil, "deadline")

\* DeadlineArm that returns the accumulator without flagging the missing context
DeadlineArmNoFlag(a) ==
    IF a.userData = Nil \/ a.permissionsData = Nil
    THEN Return(a, Nil, Nil, Nil, FALSE, <<"critical services timeout">>, "timeout")
    ELSE Return(a, a.userData, a.permissionsData, a.contextData, a.degraded,
                Nil, "deadline")

\* case <-ctx.Done()
DeadlineArm(a) ==
    IF a.userData = Nil \/ a.permissionsData = Nil
    THEN Return(a, Nil, Nil, Nil, FALSE, <<"critical services timeout">>, "timeout")
    ELSE LET a1 == [a EXCEPT !.degraded = TRUE]
         IN  Return(a1, a1.userData, a1.permissionsData, a1.contextData, a1.degraded,
                    Nil, "deadline")

\* the locals of scatterGather when its loop starts
LoopStart ==
    [userData |-> Nil, permissionsData |-> Nil, contextData |-> Nil,
     degraded |-> FALSE, received |-> 0, pc |-> "loop", ret |-> NoRet, via |-> "none"]

\* the loop run from a on the outcomes of q, each taken by the receive arm
RECURSIVE Collect(_, _)
Collect(a, q) ==
    IF q = <<>> \/ a.pc # "loop"
    THEN a
    ELSE Collect(LoopCheck(Classify(a, Head(q))), Tail(q))

\* readiness of the two arms of the select
ResultsReady == Len(results) > 0

\* a deadline arm that is taken only once both critical payloads are stored
DoneReadyAfterCritical == ctxDone /\ userData # Nil /\ permissionsData # Nil

\* a select that takes the deadline arm only when no outcome is buffered
DoneReadyWhenEmpty == ctxDone /\ Len(results) = 0

DoneReady == ctxDone

\* the loop's locals after a step, written back to the variables
SetLoop(a) ==
    /\ userData' = a.userData
    /\ permissionsData' = a.permissionsData
    /\ contextData' = a.contextData
    /\ degraded' = a.degraded
    /\ received' = a.received
    /\ sgPc' = a.pc
    /\ ret' = a.ret
    /\ via' = a.via

----------------------------------------------------------------------------
(* The WaitGroup variant of scatterGather: each goroutine has a deferred   *)
(* wg.Done(), a fourth goroutine closes the channel after wg.Wait(), and   *)
(* the loop is `for result := range results`                               *)

\* before scatterGather runs: `var wg sync.WaitGroup`, the channel not made
WgIdle == [wg |-> 0, closerPc |-> "idle", closed |-> FALSE, panicked |-> FALSE]

\* the switch on result.serviceName of the range loop
WgSwitch(a, result) ==
    CASE result.serviceName = "UserService" -> CaseUserService(a, result)
      [] result.serviceName = "PermissionsService" -> CasePermissionsService(a, result)
      [] result.serviceName = "VectorMemoryService" -> CaseVectorMemoryService(a, result)
      [] OTHER -> a

----------------------------------------------------------------------------
(* The response writers *)

\* sendJSON: the status is committed by WriteHeader, then data is encoded;
\* a failure of Encode (ok = FALSE) is only logged
SendJSON(data, code, ok) ==
    /\ statusCode' = code
    /\ headerWrites' = headerWrites + 1
    /\ body' = data
    /\ encodeErr' = ~ok

\* the ErrorResponse of sendError
ErrorBody(message, code) ==
    [error |-> StatusText(code), code |-> code, message |-> message]

\* the ChatSummaryResponse of ServeHTTP
SummaryBody(r) ==
    [user |-> r.userData, permissions |-> r.permissionsData,
     context |-> r.contextData, degraded |-> r.degraded]

\* sendError that leaves the status at the default of the ResponseWriter
SendErrorDefaultStatus(message, code, ok) ==
    SendJSON(ErrorBody(message, code), StatusOK, ok)

\* sendError whose body always carries the code of an internal error
SendErrorFixedCode(message, code, ok) ==
    SendJSON([error |-> StatusText(StatusInternalServerError),
              code |-> StatusInternalServerError, message |-> message], code, ok)

\* sendError: an ErrorResponse sent through sendJSON with the same status
SendError(message, code, ok) ==
    SendJSON(ErrorBody(message, code), code, ok)

\* sendJSON of the ChatSummaryResponse built from scatterGather's return values
SendSummary(r, code, ok) ==
    SendJSON(SummaryBody(r), code, ok)

\* a validation that rejects only when both identifiers are missing
InvalidBoth(uid, cid) == uid = "" /\ cid = ""

\* the validation of ServeHTTP: userID == "" || chatID == ""
Invalid(uid, cid) == uid = "" \/ cid = ""

\* the message of the validation failure, as the sequence of its parts
RequiredMessage == <<"user_id", " and ", "chat_id", " are required">>

----------------------------------------------------------------------------
(* Concurrent requests on one handler.  The handler holds only the three   *)
(* clients and the SLA; every call of ServeHTTP has its own ctx, and every *)
(* call of scatterGather makes its own channel and accumulator.  Each run  *)
(* is a record of the locals of its ServeHTTP and scatterGather; the loop  *)
(* operators above are applied to that record.                             *)

\* two requests in flight at once with different identities (the
\* mixed-scenario test sends chat1 and chat2 together)
Requests ==
    <<[userID |-> "user123", chatID |-> "chat1"],
      [userID |-> "user456", chatID |-> "chat2"]>>

RunIds == DOMAIN Requests

\* a channel kept in the handler and used by every run
ChanOfShared(r) == 1

\* the channel of run r: the one its own scatterGather made
ChanOf(r) == r

\* what a client call of a run can return: its payload or one error
RunClientReturns(s, uid, cid) ==
    {x \in ClientReturns(s, uid, cid) : x.err = Nil \/ x.err = <<"backend error", 1>>}

\* the locals of a run before ServeHTTP starts
RunInit(r) ==
    [userID |-> Requests[r].userID, chatID |-> Requests[r].chatID,
     httpPc |-> "init", ctxDone |-> FALSE,
     taskPc |-> [s \in Services |-> "idle"],
     taskResult |-> [s \in Services |-> NoResult],
     userData |-> Nil, permissionsData |-> Nil, contextData |-> Nil,
     degraded |-> FALSE, received |-> 0, pc |-> "idle", ret |-> NoRet,
     via |-> "none", statusCode |-> 0, body |-> Nil]

----------------------------------------------------------------------------
(* Initial state: a request has arrived, nothing has run *)

Init ==
    /\ method \in Methods
    /\ userID \in UserIDs
    /\ chatID \in ChatIDs
    /\ httpPc = "init"
    /\ ctxDone = FALSE
    /\ taskPc = [s \in Services |-> "idle"]
    /\ taskResult = [s \in Services |-> NoResult]
    /\ results = <<>>
    /\ userData = Nil
    /\ permissionsData = Nil
    /\ contextData = Nil
    /\ degraded = FALSE
    /\ received = 0
    /\ sgPc = "idle"
    /\ ret = NoRet
    /\ statusCode = 0
    /\ body = Nil
    /\ encodeErr = FALSE
    /\ headerWrites = 0
    /\ calls = [s \in Services |-> 0]
    /\ sends = [s \in Services |-> 0]
    /\ wgv = WgIdle
    /\ tm = TmIdle
    /\ backend = [s \in Services |-> NoInner]
    /\ runs = [r \in RunIds |-> RunInit(r)]
    /\ chans = [r \in RunIds |-> <<>>]
    /\ recvOrder = <<>>
    /\ firedAt = NotFired
    /\ via = "none"

----------------------------------------------------------------------------
(* Actions *)

\* ServeHTTP up to the validation failure: 400, and the deferred cancel
ServeHTTPBadRequest ==
    /\ httpPc = "init"
    /\ Invalid(userID, chatID)
    /\ \E ok \in BOOLEAN : SendError(RequiredMessage, StatusBadRequest, ok)
    /\ httpPc' = "done"
    /\ ctxDone' = TRUE
    /\ UNCHANGED <<wgv, tm, backend, runs, chans, method, calls, sends, userID, chatID, taskPc, taskResult, results, userData,
                   permissionsData, contextData, degraded, received, sgPc, ret,
                   recvOrder, firedAt, via>>

\* ServeHTTP up to the call of scatterGather, and scatterGather up to its loop:
\* the channel is made and the three goroutines are started
ServeHTTPGather ==
    /\ httpPc = "init"
    /\ ~Invalid(userID, chatID)
    /\ httpPc' = "gather"
    /\ results' = <<>>
    /\ taskPc' = [s \in Services |-> "calling"]
    /\ userData' = Nil
    /\ permissionsData' = Nil
    /\ contextData' = Nil
    /\ degraded' = FALSE
    /\ received' = 0
    /\ sgPc' = "loop"
    /\ calls' = [s \in Services |-> calls[s] + 1]
    /\ UNCHANGED <<wgv, tm, backend, runs, chans, method, encodeErr, headerWrites, sends, userID, chatID, ctxDone, taskResult, ret, statusCode, body,
                   recvOrder, firedAt, via>>

\* the timer of context.WithTimeout expires: ctx.Done() is closed
DeadlineFires ==
    /\ httpPc = "gather"
    /\ ~ctxDone
    /\ ctxDone' = TRUE
    /\ firedAt' = [fired |-> TRUE,
                   cancelled |-> FALSE,
                   pc |-> sgPc,
                   returned |-> {s \in Services : taskPc[s] \in {"send", "done"}},
                   sent |-> {s \in Services : taskPc[s] = "done"},
                   recvOrder |-> recvOrder,
                   stored |-> {s \in Critical :
                                 \/ s = "UserService" /\ userData # Nil
                                 \/ s = "PermissionsService" /\ permissionsData # Nil}]
    /\ UNCHANGED <<wgv, tm, backend, runs, chans, method, encodeErr, headerWrites, calls, sends,
                   userID, chatID, httpPc, taskPc, taskResult, results, userData,
                   permissionsData, contextData, degraded, received, sgPc, ret,
                   statusCode, body, recvOrder, via>>

\* TaskCall that calls the client again when the call returned an error
TaskCallRetry(s) ==
    /\ taskPc[s] = "calling"
    /\ \E r \in ClientReturns(s, userID, chatID) :
          IF r.err # Nil /\ calls[s] < 2
          THEN /\ calls' = [calls EXCEPT ![s] = @ + 1]
               /\ UNCHANGED <<taskResult, taskPc>>
          ELSE /\ taskResult' = [taskResult EXCEPT ![s] = MkResult(s, r)]
               /\ taskPc' = [taskPc EXCEPT ![s] = "send"]
               /\ UNCHANGED calls
    /\ UNCHANGED <<wgv, tm, backend, runs, chans, method, encodeErr, headerWrites, sends,
                   userID, chatID, httpPc, ctxDone, results, userData,
                   permissionsData, contextData, degraded, received, sgPc, ret,
                   statusCode, body, recvOrder, firedAt, via>>

\* the call of goroutine s to its dependency client returns
TaskCall(s) ==
    /\ taskPc[s] = "calling"
    /\ \E r \in ClientReturns(s, userID, chatID) :
          taskResult' = [taskResult EXCEPT ![s] = MkResult(s, r)]
    /\ taskPc' = [taskPc EXCEPT ![s] = "send"]
    /\ UNCHANGED <<wgv, tm, backend, runs, chans, method, encodeErr, headerWrites, calls, sends,
                   userID, chatID, httpPc, ctxDone, results, userData,
                   permissionsData, contextData, degraded, received, sgPc, ret,
                   statusCode, body, recvOrder, firedAt, via>>

\* a goroutine that sends its outcome a second time
TaskSendTwice(s) ==
    /\ taskPc[s] = "send"
    /\ Len(results) < ResultsCap
    /\ results' = Append(results, taskResult[s])
    /\ taskPc' = [taskPc EXCEPT ![s] = IF sends[s] >= 1 THEN "done" ELSE "send"]
    /\ sends' = [sends EXCEPT ![s] = @ + 1]
    /\ UNCHANGED <<wgv, tm, backend, runs, chans, method, encodeErr, headerWrites, calls,
                   userID, chatID, httpPc, ctxDone, taskResult, userData,
                   permissionsData, contextData, degraded, received, sgPc, ret,
                   statusCode, body, recvOrder, firedAt, via>>

\* a goroutine that sets the degraded flag itself when its call failed
TaskSendFlags(s) ==
    /\ taskPc[s] = "send"
    /\ Len(results) < ResultsCap
    /\ results' = Append(results, taskResult[s])
    /\ taskPc' = [taskPc EXCEPT ![s] = "done"]
    /\ sends' = [sends EXCEPT ![s] = @ + 1]
    /\ degraded' = (degraded \/ (s = "VectorMemoryService" /\ taskResult[s].err # Nil))
    /\ UNCHANGED <<wgv, tm, backend, runs, chans, method, encodeErr, headerWrites, calls,
                   userID, chatID, httpPc, ctxDone, taskResult, userData,
                   permissionsData, contextData, received, sgPc, ret,
                   statusCode, body, recvOrder, firedAt, via>>

\* results <- serviceResult{...}: blocks while the buffer is full
TaskSend(s) ==
    /\ taskPc[s] = "send"
    /\ Len(results) < ResultsCap
    /\ results' = Append(results, taskResult[s])
    /\ taskPc' = [taskPc EXCEPT ![s] = "done"]
    /\ sends' = [sends EXCEPT ![s] = @ + 1]
    /\ UNCHANGED <<wgv, tm, backend, runs, chans, method, encodeErr, headerWrites, calls,
                   userID, chatID, httpPc, ctxDone, taskResult, userData,
                   permissionsData, contextData, degraded, received, sgPc, ret,
                   statusCode, body, recvOrder, firedAt, via>>

\* RecvArm that reads the head of the channel without removing it
RecvArmPeek ==
    /\ sgPc = "loop"
    /\ received < NumOutcomes
    /\ ResultsReady
    /\ LET result == Head(results)
       IN  /\ SetLoop(LoopCheck(Classify(LoopState, result)))
           /\ recvOrder' = Append(recvOrder, result.serviceName)
    /\ UNCHANGED <<wgv, tm, backend, runs, chans, method, encodeErr, headerWrites, calls, sends,
                   userID, chatID, httpPc, ctxDone, taskPc, taskResult, results,
                   statusCode, body, firedAt>>

\* one iteration of the loop taking `case result := <-results`
RecvArm ==
    /\ sgPc = "loop"
    /\ received < NumOutcomes
    /\ ResultsReady
    /\ LET result == Head(results)
       IN  /\ SetLoop(LoopCheck(Classify(LoopState, result)))
           /\ recvOrder' = Append(recvOrder, result.serviceName)
    /\ results' = Tail(results)
    /\ UNCHANGED <<wgv, tm, backend, runs, chans, method, encodeErr, headerWrites, calls, sends,
                   userID, chatID, httpPc, ctxDone, taskPc, taskResult,
                   statusCode, body, firedAt>>

\* one iteration of the loop taking `case <-ctx.Done()`
DoneArm ==
    /\ sgPc = "loop"
    /\ received < NumOutcomes
    /\ DoneReady
    /\ SetLoop(DeadlineArm(LoopState))
    /\ UNCHANGED <<wgv, tm, backend, runs, chans, method, encodeErr, headerWrites, calls, sends,
                   userID, chatID, httpPc, ctxDone, taskPc, taskResult, results,
                   statusCode, body, recvOrder, firedAt>>

\* ServeHTTP after scatterGather returned: 500 or 200, and the deferred cancel
ServeHTTPRespond ==
    /\ httpPc = "gather"
    /\ sgPc = "returned"
    /\ \E ok \in BOOLEAN :
          IF ret.err # Nil
          THEN SendError(Errorf("Service unavailable: ", ret.err),
                         StatusInternalServerError, ok)
          ELSE SendSummary(ret, StatusOK, ok)
    /\ httpPc' = "done"
    /\ ctxDone' = TRUE
    /\ UNCHANGED <<wgv, tm, backend, runs, chans, method, calls, sends, userID, chatID, taskPc, taskResult, results, userData,
                   permissionsData, contextData, degraded, received, sgPc, ret,
                   recvOrder, firedAt, via>>

Next ==
    \/ ServeHTTPBadRequest
    \/ ServeHTTPGather
    \/ DeadlineFires
    \/ \E s \in Services : TaskCall(s)
    \/ \E s \in Services : TaskSend(s)
    \/ RecvArm
    \/ DoneArm
    \/ ServeHTTPRespond

Spec == Init /\ [][Next]_vars

\* the handler goroutine runs whenever it can, and the timer of the shared
\* deadline expires; nothing makes a dependency call return
Handler == ServeHTTPBadRequest \/ ServeHTTPGather \/ RecvArm \/ DoneArm \/ ServeHTTPRespond

FairSpec == Spec /\ WF_vars(Handler) /\ WF_vars(DeadlineFires)

\* the scheduler runs every goroutine that can send
TaskFairSpec == Spec /\ \A s \in Services : WF_vars(TaskSend(s))

----------------------------------------------------------------------------
(* The inbound request's context: ctx is derived from r.Context(), so the  *)
(* cancellation of the request closes ctx.Done() as the expiry does        *)

\* a ctx derived from context.Background(): the cancellation does not reach it
RequestCancelledDetached ==
    /\ httpPc = "gather"
    /\ ~ctxDone
    /\ ~firedAt.cancelled
    /\ firedAt' = [firedAt EXCEPT !.cancelled = TRUE, !.pc = sgPc]
    /\ UNCHANGED <<wgv, tm, backend, runs, chans, method, encodeErr, headerWrites, calls, sends,
                   userID, chatID, httpPc, ctxDone, taskPc, taskResult, results, userData,
                   permissionsData, contextData, degraded, received, sgPc, ret,
                   statusCode, body, recvOrder, via>>

\* the client goes away before the SLA has elapsed: r.Context() is cancelled
RequestCancelled ==
    /\ httpPc = "gather"
    /\ ~ctxDone
    /\ ctxDone' = TRUE
    /\ firedAt' = [firedAt EXCEPT !.cancelled = TRUE, !.pc = sgPc]
    /\ UNCHANGED <<wgv, tm, backend, runs, chans, method, encodeErr, headerWrites, calls, sends,
                   userID, chatID, httpPc, taskPc, taskResult, results, userData,
                   permissionsData, contextData, degraded, received, sgPc, ret,
                   statusCode, body, recvOrder, via>>

CancelNext ==
    \/ ServeHTTPBadRequest
    \/ ServeHTTPGather
    \/ DeadlineFires
    \/ RequestCancelled
    \/ \E s \in Services : TaskCall(s)
    \/ \E s \in Services : TaskSend(s)
    \/ RecvArm
    \/ DoneArm
    \/ ServeHTTPRespond

CancelSpec == Init /\ [][CancelNext]_vars

----------------------------------------------------------------------------
(* The handler wired as in cmd/main.go: the three clients are the wrappers *)

\* the call of goroutine s to its production wrapper returns
ProdTaskCall(s) ==
    /\ taskPc[s] = "calling"
    /\ \E inner \in InnerReturns(s, userID, chatID) :
          /\ backend' = [backend EXCEPT ![s] = [payload |-> inner.payload,
                                                err |-> inner.err, made |-> TRUE]]
          /\ taskResult' = [taskResult EXCEPT ![s] = MkResult(s, Wrapper(s, inner))]
    /\ taskPc' = [taskPc EXCEPT ![s] = "send"]
    /\ UNCHANGED <<wgv, tm, runs, chans, method, encodeErr, headerWrites, calls, sends,
                   userID, chatID, httpPc, ctxDone, results, userData,
                   permissionsData, contextData, degraded, received, sgPc, ret,
                   statusCode, body, recvOrder, firedAt, via>>

ProdNext ==
    \/ ServeHTTPBadRequest
    \/ ServeHTTPGather
    \/ DeadlineFires
    \/ \E s \in Services : ProdTaskCall(s)
    \/ \E s \in Services : TaskSend(s)
    \/ RecvArm
    \/ DoneArm
    \/ ServeHTTPRespond

ProdSpec == Init /\ [][ProdNext]_vars

----------------------------------------------------------------------------
(* The timing of one request: the clock, the shared deadline armed by      *)
(* ServeHTTP and the call context each client wrapper derives from it      *)

\* the variables the timing does not touch
untimed == <<method, userID, chatID, httpPc, ctxDone, taskPc, taskResult, results,
             userData, permissionsData, contextData, degraded, received,
             sgPc, ret, statusCode, body, encodeErr, headerWrites, calls, sends,
             wgv, backend, runs, chans, recvOrder, firedAt, via>>

\* main: the clients get their degradation timeouts, the handler its SLA
TmConfigure ==
    /\ tm.pc = "new"
    /\ \E sla \in 1..MaxSLA, budget \in [Services -> 1..MaxBudget] :
          tm' = [tm EXCEPT !.pc = "ready", !.sla = sla, !.budget = budget]
    /\ UNCHANGED untimed

\* ServeHTTP arms the shared deadline and scatterGather starts the goroutines
TmServe ==
    /\ tm.pc = "ready"
    /\ tm' = [tm EXCEPT !.pc = "gather",
                        !.ctxDeadline = WithTimeout(NoDeadline, tm.now, tm.sla),
                        !.callPc = [s \in Services |-> "started"]]
    /\ UNCHANGED untimed

\* a wrapper that derives its call context from context.Background()
TmCallDetached(s) ==
    /\ tm.callPc[s] = "started"
    /\ tm' = [tm EXCEPT !.callPc[s] = "inflight",
                        !.callStart[s] = tm.now,
                        !.callDeadline[s] = WithTimeout(NoDeadline, tm.now, tm.budget[s])]
    /\ UNCHANGED untimed

\* the goroutine of s runs: the wrapper derives its call context from ctx
\* and makes the call
TmCall(s) ==
    /\ tm.callPc[s] = "started"
    /\ tm' = [tm EXCEPT !.callPc[s] = "inflight",
                        !.callStart[s] = tm.now,
                        !.callDeadline[s] = WithTimeout(tm.ctxDeadline, tm.now, tm.budget[s])]
    /\ UNCHANGED untimed

\* the call of s returns, with a response or an error
TmReturn(s) ==
    /\ tm.callPc[s] = "inflight"
    /\ tm' = [tm EXCEPT !.callPc[s] = "returned", !.callEnd[s] = tm.now]
    /\ UNCHANGED untimed

\* time passes; a call in flight returns when its context is done at the latest
TmTick ==
    /\ tm.pc = "gather"
    /\ tm.now < MaxTime
    /\ \A s \in Services : tm.callPc[s] = "inflight" => tm.now < tm.callDeadline[s]
    /\ tm' = [tm EXCEPT !.now = @ + 1]
    /\ UNCHANGED untimed

TimeInit ==
    /\ Init
    /\ method = "GET"
    /\ userID = "user123"
    /\ chatID = "chat1"

TimeNext ==
    \/ TmConfigure
    \/ TmServe
    \/ \E s \in Services : TmCall(s)
    \/ \E s \in Services : TmReturn(s)
    \/ TmTick

TimeSpec == TimeInit /\ [][TimeNext]_vars

----------------------------------------------------------------------------
(* Actions of the WaitGroup variant.  ServeHTTP, the writers and the       *)
(* goroutines' client calls are those above; the clients are the wrappers. *)

\* ServeHTTP up to the range loop: wg.Add(1) before each of the three
\* goroutines, then the closer goroutine is started
WgGather ==
    /\ httpPc = "init"
    /\ ~Invalid(userID, chatID)
    /\ httpPc' = "gather"
    /\ results' = <<>>
    /\ taskPc' = [s \in Services |-> "calling"]
    /\ userData' = Nil
    /\ permissionsData' = Nil
    /\ contextData' = Nil
    /\ degraded' = FALSE
    /\ sgPc' = "loop"
    /\ calls' = [s \in Services |-> calls[s] + 1]
    /\ wgv' = [wgv EXCEPT !.wg = NumOutcomes, !.closerPc = "waiting"]
    /\ UNCHANGED <<tm, backend, runs, chans, method, encodeErr, headerWrites, sends,
                   userID, chatID, ctxDone, taskResult, received, ret, statusCode, body,
                   recvOrder, firedAt, via>>

\* the call of goroutine s to its client, a wrapper of internal/services, returns
WgTaskCall(s) ==
    /\ taskPc[s] = "calling"
    /\ \E inner \in InnerReturns(s, userID, chatID) :
          taskResult' = [taskResult EXCEPT ![s] = MkResult(s, Wrapper(s, inner))]
    /\ taskPc' = [taskPc EXCEPT ![s] = "send"]
    /\ UNCHANGED <<wgv, tm, backend, runs, chans, method, encodeErr, headerWrites, calls, sends,
                   userID, chatID, httpPc, ctxDone, results, userData,
                   permissionsData, contextData, degraded, received, sgPc, ret,
                   statusCode, body, recvOrder, firedAt, via>>

\* results <- serviceResult{...}; a send on a closed channel panics
WgTaskSend(s) ==
    /\ taskPc[s] = "send"
    /\ wgv.closed \/ Len(results) < ResultsCap
    /\ IF wgv.closed
       THEN /\ wgv' = [wgv EXCEPT !.panicked = TRUE]
            /\ UNCHANGED results
       ELSE /\ results' = Append(results, taskResult[s])
            /\ UNCHANGED wgv
    /\ taskPc' = [taskPc EXCEPT ![s] = "exit"]
    /\ sends' = [sends EXCEPT ![s] = @ + 1]
    /\ UNCHANGED <<tm, backend, runs, chans, method, encodeErr, headerWrites, calls,
                   userID, chatID, httpPc, ctxDone, taskResult, userData,
                   permissionsData, contextData, degraded, received, sgPc, ret,
                   statusCode, body, recvOrder, firedAt, via>>

\* the deferred wg.Done() of goroutine s
WgTaskDone(s) ==
    /\ taskPc[s] = "exit"
    /\ taskPc' = [taskPc EXCEPT ![s] = "done"]
    /\ wgv' = [wgv EXCEPT !.wg = @ - 1]
    /\ UNCHANGED <<tm, backend, runs, chans, method, encodeErr, headerWrites, calls, sends,
                   userID, chatID, httpPc, ctxDone, taskResult, results, userData,
                   permissionsData, contextData, degraded, received, sgPc, ret,
                   statusCode, body, recvOrder, firedAt, via>>

\* a closer that closes the channel as soon as scatterGather has returned
WgCloseOnReturn ==
    /\ wgv.closerPc = "waiting"
    /\ wgv.wg = 0 \/ sgPc = "returned"
    /\ wgv' = [wgv EXCEPT !.closed = TRUE, !.closerPc = "done"]
    /\ UNCHANGED <<tm, backend, runs, chans, method, encodeErr, headerWrites, calls, sends,
                   userID, chatID, httpPc, ctxDone, taskPc, taskResult, results, userData,
                   permissionsData, contextData, degraded, received, sgPc, ret,
                   statusCode, body, recvOrder, firedAt, via>>

\* the closer goroutine: wg.Wait() returns when the counter is 0, then close(results)
WgClose ==
    /\ wgv.closerPc = "waiting"
    /\ wgv.wg = 0
    /\ wgv' = [wgv EXCEPT !.closed = TRUE, !.closerPc = "done"]
    /\ UNCHANGED <<tm, backend, runs, chans, method, encodeErr, headerWrites, calls, sends,
                   userID, chatID, httpPc, ctxDone, taskPc, taskResult, results, userData,
                   permissionsData, contextData, degraded, received, sgPc, ret,
                   statusCode, body, recvOrder, firedAt, via>>

\* one iteration of `for result := range results`
WgRecv ==
    /\ sgPc = "loop"
    /\ Len(results) > 0
    /\ LET result == Head(results)
       IN  /\ SetLoop(WgSwitch(LoopState, result))
           /\ recvOrder' = Append(recvOrder, result.serviceName)
    /\ results' = Tail(results)
    /\ UNCHANGED <<wgv, tm, backend, runs, chans, method, encodeErr, headerWrites, calls, sends,
                   userID, chatID, httpPc, ctxDone, taskPc, taskResult,
                   statusCode, body, firedAt>>

\* a range loop that also leaves when ctx is done
WgLoopEndOrDone ==
    /\ sgPc = "loop"
    /\ (Len(results) = 0 /\ wgv.closed) \/ ctxDone
    /\ SetLoop(Return(LoopState, userData, permissionsData, contextData, degraded,
                      Nil, "loopEnd"))
    /\ UNCHANGED <<wgv, tm, backend, runs, chans, method, encodeErr, headerWrites, calls, sends,
                   userID, chatID, httpPc, ctxDone, taskPc, taskResult, results,
                   statusCode, body, recvOrder, firedAt>>

\* the range loop ends: the channel is closed and drained; the final return
WgLoopEnd ==
    /\ sgPc = "loop"
    /\ Len(results) = 0
    /\ wgv.closed
    /\ SetLoop(Return(LoopState, userData, permissionsData, contextData, degraded,
                      Nil, "loopEnd"))
    /\ UNCHANGED <<wgv, tm, backend, runs, chans, method, encodeErr, headerWrites, calls, sends,
                   userID, chatID, httpPc, ctxDone, taskPc, taskResult, results,
                   statusCode, body, recvOrder, firedAt>>

WgNext ==
    \/ ServeHTTPBadRequest
    \/ WgGather
    \/ DeadlineFires
    \/ \E s \in Services : WgTaskCall(s)
    \/ \E s \in Services : WgTaskSend(s)
    \/ \E s \in Services : WgTaskDone(s)
    \/ WgClose
    \/ WgRecv
    \/ WgLoopEnd
    \/ ServeHTTPRespond

WgSpec == Init /\ [][WgNext]_vars

----------------------------------------------------------------------------
(* Actions of the concurrent requests *)

\* the variables of the single-request model
single == <<method, userID, chatID, httpPc, ctxDone, taskPc, taskResult, results,
            userData, permissionsData, contextData, degraded, received,
            sgPc, ret, statusCode, body, encodeErr, headerWrites, calls, sends,
            wgv, tm, backend, recvOrder, firedAt, via>>

\* ServeHTTP of run r up to the loop of its scatterGather
RunGather(r) ==
    /\ runs[r].httpPc = "init"
    /\ ~Invalid(runs[r].userID, runs[r].chatID)
    /\ runs' = [runs EXCEPT ![r] =
                 [runs[r] EXCEPT !.httpPc = "gather", !.pc = "loop",
                                 !.taskPc = [s \in Services |-> "calling"]]]
    /\ chans' = [chans EXCEPT ![ChanOf(r)] = <<>>]
    /\ UNCHANGED single

\* the shared deadline of run r expires
RunDeadlineFires(r) ==
    /\ runs[r].httpPc = "gather"
    /\ ~runs[r].ctxDone
    /\ runs' = [runs EXCEPT ![r].ctxDone = TRUE]
    /\ UNCHANGED <<chans, single>>

\* the client call of goroutine s of run r returns
RunTaskCall(r, s) ==
    /\ runs[r].taskPc[s] = "calling"
    /\ \E x \in RunClientReturns(s, runs[r].userID, runs[r].chatID) :
          runs' = [runs EXCEPT ![r].taskResult[s] = MkResult(s, x),
                               ![r].taskPc[s] = "send"]
    /\ UNCHANGED <<chans, single>>

\* goroutine s of run r sends its serviceResult
RunTaskSend(r, s) ==
    /\ runs[r].taskPc[s] = "send"
    /\ Len(chans[ChanOf(r)]) < ResultsCap
    /\ chans' = [chans EXCEPT ![ChanOf(r)] = Append(@, runs[r].taskResult[s])]
    /\ runs' = [runs EXCEPT ![r].taskPc[s] = "done"]
    /\ UNCHANGED single

\* the loop of run r takes `case result := <-results`
RunRecvArm(r) ==
    /\ runs[r].pc = "loop"
    /\ runs[r].received < NumOutcomes
    /\ Len(chans[ChanOf(r)]) > 0
    /\ runs' = [runs EXCEPT ![r] = LoopCheck(Classify(@, Head(chans[ChanOf(r)])))]
    /\ chans' = [chans EXCEPT ![ChanOf(r)] = Tail(@)]
    /\ UNCHANGED single

\* the loop of run r takes `case <-ctx.Done()`
RunDoneArm(r) ==
    /\ runs[r].pc = "loop"
    /\ runs[r].received < NumOutcomes
    /\ runs[r].ctxDone
    /\ runs' = [runs EXCEPT ![r] = DeadlineArm(@)]
    /\ UNCHANGED <<chans, single>>

\* ServeHTTP of run r after its scatterGather returned
RunRespond(r) ==
    /\ runs[r].httpPc = "gather"
    /\ runs[r].pc = "returned"
    /\ LET run == runs[r]
       IN  runs' = [runs EXCEPT ![r] =
                     IF run.ret.err # Nil
                     THEN [run EXCEPT !.httpPc = "done", !.ctxDone = TRUE,
                                      !.statusCode = StatusInternalServerError,
                                      !.body = ErrorBody(Errorf("Service unavailable: ", run.ret.err),
                                                         StatusInternalServerError)]
                     ELSE [run EXCEPT !.httpPc = "done", !.ctxDone = TRUE,
                                      !.statusCode = StatusOK,
                                      !.body = SummaryBody(run.ret)]]
    /\ UNCHANGED <<chans, single>>

ConcInit ==
    /\ Init
    /\ method = "GET"
    /\ userID = "user123"
    /\ chatID = "chat1"

ConcNext ==
    \/ \E r \in RunIds : RunGather(r)
    \/ \E r \in RunIds : RunDeadlineFires(r)
    \/ \E r \in RunIds, s \in Services : RunTaskCall(r, s)
    \/ \E r \in RunIds, s \in Services : RunTaskSend(r, s)
    \/ \E r \in RunIds : RunRecvArm(r)
    \/ \E r \in RunIds : RunDoneArm(r)
    \/ \E r \in RunIds : RunRespond(r)

ConcSpec == ConcInit /\ [][ConcNext]_vars

----------------------------------------------------------------------------
TypeOK ==
    /\ httpPc \in {"init", "gather", "done"}
    /\ sgPc \in {"idle", "loop", "returned"}
    /\ ctxDone \in BOOLEAN
    /\ degraded \in BOOLEAN
    /\ received \in 0..NumOutcomes
    /\ Len(results) <= ResultsCap
    /\ statusCode \in {0, StatusOK, StatusBadRequest, StatusInternalServerError}

----------------------------------------------------------------------------
(* Vocabulary of the properties *)

Range(q) == {q[i] : i \in 1..Len(q)}

\* ServeHTTP has written its response
Responded == httpPc = "done" /\ statusCode # 0

\* the dependency call of s has returned, with a payload / with an error
CallReturned(s) == taskPc[s] \in {"send", "done"}
CallOk(s) == CallReturned(s) /\ taskResult[s].err = Nil
CallErr(s) == CallReturned(s) /\ taskResult[s].err # Nil

\* the loop received the outcome of s, and the shared deadline had not expired then
RecvBeforeDeadline(s) ==
    /\ s \in Range(recvOrder)
    /\ firedAt.fired => s \in Range(firedAt.recvOrder)

\* the shared deadline expired while scatterGather was collecting
FiredInLoop == firedAt.fired /\ firedAt.pc = "loop"

\* the response is a 200 whose body is b
FullBody ==
    /\ statusCode = StatusOK
    /\ body.user # Nil
    /\ body.permissions # Nil

----------------------------------------------------------------------------
(* C1: when all three dependency calls succeed and all three outcomes are  *)
(* received before the shared deadline expires, the response is 200 with   *)
(* degraded=false and user, permissions and context present.               *)
C1_AllSucceed ==
    (Responded /\ \A s \in Services : CallOk(s) /\ RecvBeforeDeadline(s))
        => /\ FullBody
           /\ body.degraded = FALSE
           /\ body.context # Nil

C1_Witness ==
    /\ Responded
    /\ \A s \in Services : CallOk(s) /\ RecvBeforeDeadline(s)
    /\ statusCode = StatusOK
    /\ recvOrder[1] = "VectorMemoryService"

(* C2: when GetContext returns an error and both critical calls succeed    *)
(* and are received before the shared deadline, the response is 200 with   *)
(* degraded=true, no context, and user and permissions present, in every   *)
(* arrival order; degraded, once set in the loop, stays set until return.  *)
C2_OptionalFails ==
    /\ (Responded /\ CallErr("VectorMemoryService")
          /\ \A s \in Critical : CallOk(s) /\ RecvBeforeDeadline(s))
        => /\ FullBody
           /\ body.degraded = TRUE
           /\ body.context = Nil
    /\ (sgPc = "returned" /\ ret.err = Nil /\ degraded) => ret.degraded

C2_Witness ==
    /\ Responded
    /\ CallErr("VectorMemoryService")
    /\ \A s \in Critical : CallOk(s) /\ RecvBeforeDeadline(s)
    /\ recvOrder[1] = "VectorMemoryService"
    /\ statusCode = StatusOK
    /\ body.degraded

(* C3: when GetUser or CheckAccess returns an error the response is 500,   *)
(* whatever the other two dependencies do and whenever they do it.         *)
C3_CriticalError ==
    (Responded /\ \E s \in Critical : CallErr(s))
        => statusCode = StatusInternalServerError

C3_Witness ==
    /\ Responded
    /\ CallErr("PermissionsService")
    /\ CallOk("UserService")
    /\ "UserService" \in Range(recvOrder)
    /\ taskPc["VectorMemoryService"] = "calling"
    /\ statusCode = StatusInternalServerError

(* C4: fail-fast.  The step that receives an error outcome of a critical   *)
(* task is the step in which scatterGather returns a failure; after the    *)
(* return nothing more is received and the result does not change.         *)
C4_FailFast ==
    [][ /\ (/\ sgPc = "loop"
            /\ ResultsReady
            /\ Head(results).serviceName \in Critical
            /\ Head(results).err # Nil
            /\ received' = received + 1)
           => (sgPc' = "returned" /\ ret'.err # Nil /\ via' \in {"userErr", "permErr"})
        /\ sgPc = "returned"
           => (/\ sgPc' = "returned"
               /\ ret' = ret
               /\ received' = received
               /\ recvOrder' = recvOrder
               /\ Len(results') >= Len(results)) ]_vars

C4_Witness ==
    /\ sgPc = "returned"
    /\ via = "permErr"
    /\ ~ctxDone
    /\ recvOrder = <<"VectorMemoryService", "PermissionsService">>
    /\ taskPc["UserService"] = "calling"

(* C5: when the shared deadline expires before both critical calls have    *)
(* resolved, the response is 500 and the cause is the critical timeout.    *)
C5_CriticalTimeout ==
    (Responded /\ FiredInLoop /\ ~(Critical \subseteq firedAt.returned))
        => (statusCode = StatusInternalServerError /\ via = "timeout")

(* C6: when both critical payloads are stored and the optional outcome has *)
(* not been received (its call has not even returned) at the moment the    *)
(* shared deadline expires, the result is a success with degraded=true and *)
(* no context payload.                                                     *)
C6_DeadlineDegrades ==
    (/\ sgPc = "returned"
     /\ FiredInLoop
     /\ firedAt.stored = Critical
     /\ "VectorMemoryService" \notin Range(firedAt.recvOrder)
     /\ "VectorMemoryService" \notin firedAt.returned)
        => (ret.err = Nil /\ ret.degraded = TRUE /\ ret.contextData = Nil)

(* C7: scatterGather returns a failure if and only if a critical call      *)
(* reported an error or the shared deadline expired before both critical   *)
(* calls had completed: a failure implies an error or a deadline that      *)
(* found a critical payload not yet stored, and an error, or a deadline    *)
(* that found a critical call not yet returned, implies a failure.         *)
C7_FailureIff ==
    sgPc = "returned"
        => /\ ret.err # Nil
                => \/ \E s \in Critical : CallErr(s)
                   \/ FiredInLoop /\ firedAt.stored # Critical
           /\ (\/ \E s \in Critical : CallErr(s)
               \/ FiredInLoop /\ ~(Critical \subseteq firedAt.returned))
                => ret.err # Nil

(* C8: in a successful result the context payload is present exactly when  *)
(* the optional call succeeded and its outcome was received (which can     *)
(* only be before the deadline arm), and degraded is true exactly when the *)
(* context payload is absent.                                              *)
C8_ContextAndDegraded ==
    (sgPc = "returned" /\ ret.err = Nil)
        => /\ ret.contextData # Nil
                <=> /\ CallOk("VectorMemoryService")
                    /\ "VectorMemoryService" \in Range(recvOrder)
                    /\ via # "deadline"
           /\ ret.degraded <=> ret.contextData = Nil

C8_Witness ==
    /\ sgPc = "returned"
    /\ ret.err = Nil
    /\ via = "deadline"
    /\ CallOk("VectorMemoryService")
    /\ ret.contextData = Nil
    /\ ret.degraded

(* C9: every success, degraded or not, through the end of the loop or      *)
(* through the deadline arm, carries the user and the permissions payload. *)
C9_CriticalPresent ==
    /\ (sgPc = "returned" /\ ret.err = Nil)
          => (ret.userData # Nil /\ ret.permissionsData # Nil)
    /\ statusCode = StatusOK => FullBody

C9_Witness ==
    /\ statusCode = StatusOK
    /\ via = "deadline"
    /\ body.degraded
    /\ body.user # Nil
    /\ body.permissions # Nil

(* C10: once the loop runs and the shared deadline eventually expires,     *)
(* scatterGather eventually returns, also when dependency calls never      *)
(* return; with the deadline expired the loop always has an arm to take.   *)
C10_Terminates ==
    /\ (sgPc = "loop") ~> (sgPc = "returned")
    /\ []((sgPc = "loop" /\ ctxDone) => ENABLED (RecvArm \/ DoneArm))

C10_Witness ==
    /\ sgPc = "returned"
    /\ via \in {"timeout", "deadline"}
    /\ \E s \in Services : taskPc[s] = "calling"

----------------------------------------------------------------------------
(* Vocabulary of the properties on tasks and messages *)

\* number of occurrences of x in the sequence q
Count(q, x) == Cardinality({i \in 1..Len(q) : q[i] = x})

\* the serviceName of every outcome buffered in the channel, in order
Buffered == [i \in 1..Len(results) |-> results[i].serviceName]

\* the request lacks an identifier: user_id or chat_id is missing or empty
MissingID == userID = "" \/ chatID = ""

\* the part of a 500 message that names the cause
Cause == body.message[2]

(* C11: no task leak.  The channel never holds more than its capacity, at  *)
(* most three outcomes are ever sent, and a task whose call has returned   *)
(* can always send at once, whatever scatterGather has done meanwhile; a   *)
(* scheduled task therefore deposits its outcome and exits.                *)
C11_NoTaskLeak ==
    /\ [](/\ Len(results) <= ResultsCap
          /\ sends["UserService"] + sends["PermissionsService"]
               + sends["VectorMemoryService"] <= ResultsCap
          /\ \A s \in Services : taskPc[s] = "send" => Len(results) < ResultsCap)
    /\ \A s \in Services : (taskPc[s] = "send") ~> (taskPc[s] = "done")

C11_Witness ==
    /\ httpPc = "done"
    /\ via = "timeout"
    /\ Len(results) = 2
    /\ \E s \in Services : taskPc[s] = "send"

(* C12: when user_id or chat_id is missing or empty the response is 400,   *)
(* the body's code is 400, the message names the missing field, and        *)
(* scatterGather is never entered: no task is launched, no client called.  *)
C12_BadRequest ==
    MissingID
        => /\ sgPc = "idle"
           /\ \A s \in Services : taskPc[s] = "idle" /\ calls[s] = 0
           /\ httpPc = "done"
                => /\ statusCode = StatusBadRequest
                   /\ body.code = StatusBadRequest
                   /\ userID = "" => "user_id" \in Range(body.message)
                   /\ chatID = "" => "chat_id" \in Range(body.message)

C12_Witness ==
    /\ userID = ""
    /\ chatID = "chat1"
    /\ httpPc = "done"
    /\ statusCode = StatusBadRequest
    /\ "user_id" \in Range(body.message)

(* C13: a request whose method is not GET is answered with 405 and the     *)
(* aggregation is not run, also when both identifiers are present.         *)
C13_MethodNotAllowed ==
    (httpPc # "init" /\ method # "GET")
        => /\ sgPc = "idle"
           /\ httpPc = "done" => statusCode = StatusMethodNotAllowed

(* C14: when encoding the success body fails the response is downgraded to *)
(* 500: no 200 is committed for a body that failed to serialize.           *)
C14_EncodeFailureDowngrades ==
    (Responded /\ encodeErr /\ sgPc = "returned" /\ ret.err = Nil)
        => statusCode = StatusInternalServerError

(* C15: ServeHTTP writes exactly one response per request; for a request   *)
(* with both identifiers it writes 200 exactly when scatterGather returned *)
(* a nil error and 500 exactly when it returned an error.                  *)
C15_OneResponse ==
    /\ headerWrites <= 1
    /\ httpPc = "done" <=> headerWrites = 1
    /\ (httpPc = "done" /\ ~MissingID)
          => /\ sgPc = "returned"
             /\ statusCode = StatusOK <=> ret.err = Nil
             /\ statusCode = StatusInternalServerError <=> ret.err # Nil

C15_Witness ==
    /\ httpPc = "done"
    /\ headerWrites = 1
    /\ statusCode = StatusOK
    /\ ret.err = Nil
    /\ ret.degraded

(* C16: in every error response (400 or 500) the body's code equals the    *)
(* status written and its error field is the status text of that code.     *)
C16_ErrorBody ==
    (httpPc = "done" /\ statusCode \in {StatusBadRequest, StatusInternalServerError})
        => /\ body.code = statusCode
           /\ body.error = StatusText(statusCode)
           /\ body.error # ""

C16_Witness ==
    /\ httpPc = "done"
    /\ statusCode = StatusBadRequest
    /\ body.code = StatusBadRequest
    /\ body.error = "Bad Request"

(* C17: the 500 message names its cause: the user service only when the    *)
(* UserService task reported the error it wraps, the permissions service   *)
(* only when the PermissionsService task did, the timeout only when the    *)
(* deadline arm was taken with a critical payload missing; it names no     *)
(* dependency that succeeded and never the optional dependency.            *)
C17_MessageNamesCause ==
    (httpPc = "done" /\ statusCode = StatusInternalServerError)
        => /\ body.message[1] = "Service unavailable: "
           /\ Cause \in {"user service failed: ", "permissions service failed: ",
                         "critical services timeout"}
           /\ Cause = "user service failed: "
                => /\ CallErr("UserService")
                   /\ body.message = <<body.message[1], Cause>>
                                        \o taskResult["UserService"].err
           /\ Cause = "permissions service failed: "
                => /\ CallErr("PermissionsService")
                   /\ body.message = <<body.message[1], Cause>>
                                        \o taskResult["PermissionsService"].err
           /\ Cause = "critical services timeout"
                => /\ via = "timeout"
                   /\ userData = Nil \/ permissionsData = Nil
                   /\ Len(body.message) = 2

C17_Witness ==
    /\ httpPc = "done"
    /\ statusCode = StatusInternalServerError
    /\ Cause = "permissions service failed: "
    /\ CallOk("UserService")
    /\ "UserService" \in Range(recvOrder)
    /\ CallErr("VectorMemoryService")
    /\ "VectorMemoryService" \in Range(recvOrder)

(* C18: one run launches exactly three tasks, one per dependency; each     *)
(* client is called exactly once and never again, each task sends exactly  *)
(* one outcome, and all outcomes go to the one channel of the run.         *)
C18_ThreeTasksOnce ==
    /\ sgPc = "idle" => \A s \in Services : taskPc[s] = "idle" /\ calls[s] = 0
    /\ sgPc # "idle" => \A s \in Services : taskPc[s] # "idle" /\ calls[s] = 1
    /\ \A s \in Services :
          /\ sends[s] <= 1
          /\ taskPc[s] = "done" <=> sends[s] = 1
          /\ Count(Buffered, s) + Count(recvOrder, s) = sends[s]

C18_Witness ==
    /\ sgPc = "returned"
    /\ \A s \in Services : taskPc[s] = "done" /\ calls[s] = 1 /\ sends[s] = 1
    /\ \E s \in Critical : CallErr(s)

(* C19 as claimed: in a finished run every outcome a task produced has     *)
(* been consumed exactly once by the collection loop.                      *)
C19_ConsumedExactlyOnce ==
    \A s \in Services :
        (httpPc = "done" /\ taskPc[s] = "done") => Count(recvOrder, s) = 1

(* C19 as amended: every outcome is produced by exactly one task and is    *)
(* consumed at most once; it is either still buffered or was received,     *)
(* never both; exactly once when scatterGather returns from the end of its *)
(* loop.  After an abort or the deadline arm the rest stays unconsumed.    *)
C19_ConsumedAtMostOnce ==
    /\ \A s \in Services :
          /\ Count(recvOrder, s) <= 1
          /\ Count(Buffered, s) + Count(recvOrder, s) = sends[s]
    /\ \A i \in 1..Len(results) : results[i] = taskResult[results[i].serviceName]
    /\ via = "loopEnd" => \A s \in Services : Count(recvOrder, s) = 1

C19_Witness ==
    /\ httpPc = "done"
    /\ via = "userErr"
    /\ \A s \in Services : taskPc[s] = "done"
    /\ Count(recvOrder, "PermissionsService") = 0
    /\ Count(Buffered, "PermissionsService") = 1

\* C20: concurrent runs on one handler never interfere.  Every outcome in a
\* channel was sent by a task of the run that made the channel; every payload
\* in a run's accumulator, result and response was returned by that run's own
\* client calls; a response of 200 is degraded exactly when the run's own
\* context call failed or its own deadline stopped the loop, and a failure has
\* a cause in the run itself; and a step of one run leaves the other runs and
\* their channels as they were.
C20_OwnOutcomes(r) ==
    LET run == runs[r]
        own(s) == run.taskResult[s]
        sent   == {own(s) : s \in {t \in Services : run.taskPc[t] = "done"}}
    IN  /\ \A i \in 1..Len(chans[r]) : chans[r][i] \in sent
        /\ run.userData \in {Nil, own("UserService").userData}
        /\ run.permissionsData \in {Nil, own("PermissionsService").permissionsData}
        /\ run.contextData \in {Nil, own("VectorMemoryService").contextData}
        /\ run.userData # Nil => run.userData = <<"GetUserResponse", Requests[r].userID>>
        /\ run.permissionsData # Nil =>
              run.permissionsData = <<"CheckAccessResponse", Requests[r].userID, Requests[r].chatID>>
        /\ run.contextData # Nil => run.contextData = <<"GetContextResponse", Requests[r].chatID>>
        /\ run.pc = "returned" /\ run.ret.err = Nil =>
              /\ run.ret.userData = run.userData
              /\ run.ret.permissionsData = run.permissionsData
              /\ run.ret.contextData = run.contextData
        /\ run.httpPc = "done" /\ run.statusCode = StatusOK =>
              /\ run.body = SummaryBody(run.ret)
              /\ own("VectorMemoryService").err # Nil => run.body.degraded
              /\ run.body.degraded =>
                    own("VectorMemoryService").err # Nil \/ run.via = "deadline"
        /\ run.httpPc = "done" /\ run.statusCode = StatusInternalServerError =>
              \/ \E s \in Critical : own(s).err # Nil /\ run.ret.err = Errorf(run.body.message[2], own(s).err)
                                     /\ run.body.message = Errorf("Service unavailable: ", run.ret.err)
              \/ run.via = "timeout"

C20_Frame ==
    \A r \in RunIds :
        runs'[r] # runs[r] \/ chans'[r] # chans[r] =>
            \A q \in RunIds \ {r} : runs'[q] = runs[q] /\ chans'[q] = chans[q]

C20_NoInterference ==
    /\ [](\A r \in RunIds : C20_OwnOutcomes(r))
    /\ [][C20_Frame]_vars

\* both runs are in flight with scatterGather returned: the second is degraded
\* by the failure of its own context call, the first has all three payloads
C20_Witness ==
    /\ \A r \in RunIds : runs[r].httpPc = "gather" /\ runs[r].pc = "returned"
                         /\ runs[r].ret.err = Nil /\ runs[r].via = "loopEnd"
    /\ runs[2].taskResult["VectorMemoryService"].err # Nil
    /\ runs[2].ret.degraded
    /\ runs[2].ret.contextData = Nil
    /\ ~runs[1].ret.degraded
    /\ runs[1].ret.contextData = <<"GetContextResponse", "chat1">>
    /\ runs[1].ret.userData = <<"GetUserResponse", "user123">>
    /\ runs[2].ret.userData = <<"GetUserResponse", "user456">>

----------------------------------------------------------------------------
(* Vocabulary of the properties of the production wiring *)

\* what the call under the wrapper of s returned, once it has been made
InnerOf(s) == backend[s]

\* the call under the context wrapper failed
VectorBackendFailed ==
    InnerOf("VectorMemoryService").made /\ InnerOf("VectorMemoryService").err # Nil

\* C21: VectorMemoryServiceClient.GetContext never returns an error.  Whatever
\* the call under it returned, the goroutine gets a nil error; when that call
\* failed (a backend error or the expiry of the call context) the payload is
\* the empty response (no items, total count 0), otherwise it is the response.
C21_GetContextNeverFails ==
    InnerOf("VectorMemoryService").made =>
        /\ taskResult["VectorMemoryService"].err = Nil
        /\ InnerOf("VectorMemoryService").err # Nil =>
              taskResult["VectorMemoryService"].contextData = <<"GetContextResponse", <<>>, 0>>
        /\ InnerOf("VectorMemoryService").err = Nil =>
              taskResult["VectorMemoryService"].contextData = InnerOf("VectorMemoryService").payload

\* the call under the wrapper ended by the expiry of its context, and the
\* goroutine holds an empty response with a nil error
C21_Witness ==
    /\ InnerOf("VectorMemoryService").made
    /\ InnerOf("VectorMemoryService").err = DeadlineExceeded
    /\ taskResult["VectorMemoryService"].err = Nil
    /\ taskResult["VectorMemoryService"].contextData = EmptyContext

\* C22: with the production context wrapper the optional-failure branch of
\* the loop is never taken.  The degraded flag is set only by the deadline
\* arm; and when the context backend failed and the loop received all three
\* outcomes, the result is a success with degraded=false and the empty context,
\* sent as 200.
C22_FailureBranchUnreachable ==
    /\ degraded => via = "deadline"
    /\ sgPc = "returned" /\ ret.degraded => via = "deadline"
    /\ (VectorBackendFailed /\ via = "loopEnd") =>
          /\ ret.err = Nil
          /\ ret.degraded = FALSE
          /\ ret.contextData = <<"GetContextResponse", <<>>, 0>>
          /\ Responded =>
                /\ statusCode = StatusOK
                /\ body.degraded = FALSE
                /\ body.context = <<"GetContextResponse", <<>>, 0>>

\* the context backend returned a backend error, every outcome was received,
\* and the response is 200 with degraded=false
C22_Witness ==
    /\ VectorBackendFailed
    /\ InnerOf("VectorMemoryService").err \in Errs
    /\ via = "loopEnd"
    /\ Responded
    /\ statusCode = StatusOK
    /\ body.degraded = FALSE
    /\ body.context = EmptyContext

----------------------------------------------------------------------------
\* the order in which the goroutines are started
DispatchOrder == <<"UserService", "PermissionsService", "VectorMemoryService">>

\* every order in which the three outcomes can arrive
ArrivalOrders ==
    {q \in [1..3 -> Services] : \A i, j \in 1..3 : i # j => q[i] # q[j]}

\* the outcomes of the three goroutines, in the order q
OutcomesIn(q) == [i \in 1..3 |-> taskResult[q[i]]]

\* C23: order independence.  When the three calls have returned and no
\* critical call failed, the loop fed with the three outcomes returns the
\* same five values for every arrival order; and a run that received all
\* three before the deadline expired returned exactly those values.
C23_OrderIndependent ==
    ((\A s \in Services : CallReturned(s)) /\ (\A s \in Critical : CallOk(s))) =>
        /\ \A q \in ArrivalOrders :
              /\ Collect(LoopStart, OutcomesIn(q)).pc = "returned"
              /\ Collect(LoopStart, OutcomesIn(q)).ret
                    = Collect(LoopStart, OutcomesIn(DispatchOrder)).ret
        /\ (via = "loopEnd" /\ (firedAt.fired => Len(firedAt.recvOrder) = NumOutcomes)) =>
              /\ ret = Collect(LoopStart, OutcomesIn(DispatchOrder)).ret
              /\ ret.userData = taskResult["UserService"].userData
              /\ ret.permissionsData = taskResult["PermissionsService"].permissionsData
              /\ ret.contextData = taskResult["VectorMemoryService"].contextData
              /\ ret.degraded = (taskResult["VectorMemoryService"].err # Nil)

\* the outcomes arrived in the reverse of the dispatch order, before the
\* deadline, and scatterGather returned a success
C23_Witness ==
    /\ via = "loopEnd"
    /\ ~firedAt.fired
    /\ recvOrder = <<"VectorMemoryService", "PermissionsService", "UserService">>
    /\ ret.err = Nil
    /\ ret.contextData # Nil

----------------------------------------------------------------------------
\* C24: the loop keeps waiting for the optional outcome.  A step in which
\* scatterGather returns a success while the shared deadline has not expired,
\* or without taking the deadline arm, is the receipt of the third outcome:
\* all three outcomes have been received, and the degraded flag returned is
\* the failure of the context call itself.
C24_Step ==
    (/\ sgPc = "loop"
     /\ sgPc' = "returned"
     /\ ret'.err = Nil
     /\ (~ctxDone \/ via' # "deadline")) =>
        /\ received' = NumOutcomes
        /\ Range(recvOrder') = Services
        /\ via' = "loopEnd"
        /\ ret'.degraded = (taskResult["VectorMemoryService"].err # Nil)
        /\ ret'.contextData = taskResult["VectorMemoryService"].contextData

C24_WaitsForOptional == [][C24_Step]_vars

\* both critical outcomes were received first, the context outcome last, the
\* deadline has not expired, and scatterGather returned all three payloads
C24_Witness ==
    /\ httpPc = "gather"
    /\ ~ctxDone
    /\ via = "loopEnd"
    /\ recvOrder[3] = "VectorMemoryService"
    /\ ret.err = Nil
    /\ ret.degraded = FALSE
    /\ ret.contextData # Nil

----------------------------------------------------------------------------
\* the outcomes the goroutine of s can send in this request
OutcomesOf(s) == {MkResult(s, x) : x \in ClientReturns(s, userID, chatID)}

\* what of a loop state does not belong to the optional dependency: the
\* verdict, the failure cause, the critical payloads, and the position
Verdict(a) ==
    [pc |-> a.pc, via |-> a.via, received |-> a.received,
     userData |-> a.userData, permissionsData |-> a.permissionsData,
     err |-> a.ret.err, retUser |-> a.ret.userData,
     retPermissions |-> a.ret.permissionsData]

\* the loop states that differ from a in the context payload and the flag only
SameButOptional(a) ==
    {[a EXCEPT !.contextData = c, !.degraded = d] :
        c \in {Nil, <<"GetContextResponse", chatID>>}, d \in BOOLEAN}

\* the run in which the outcomes u, p and v of the three services arrive in
\* the order q, and the deadline arm is taken after k of them unless the loop
\* has returned by then
RunWith(q, k, u, p, v) ==
    LET o == [i \in 1..3 |-> CASE q[i] = "UserService" -> u
                               [] q[i] = "PermissionsService" -> p
                               [] q[i] = "VectorMemoryService" -> v]
        a == Collect(LoopStart, SubSeq(o, 1, k))
    IN  IF a.pc = "loop" THEN DeadlineArm(a) ELSE a

\* the outcome of a context call that succeeded
ContextOk ==
    MkResult("VectorMemoryService",
             [payload |-> <<"GetContextResponse", chatID>>, err |-> Nil])

\* C25: the optional dependency's outcome does not interfere with the verdict.
\* For the request at hand and every pair of critical outcomes, every arrival
\* order and every point at which the deadline arm is taken, two runs that
\* differ only in the value of the context outcome (each value is compared
\* with the success) return the same success or failure, the same cause and
\* the same critical payloads; and at every loop state a run reaches, each
\* step keeps two states that differ only in the context payload and the flag
\* equal in that respect.
C25_OptionalNoninterference ==
    /\ httpPc = "init" =>
          \A u \in OutcomesOf("UserService"), p \in OutcomesOf("PermissionsService") :
             \A q \in ArrivalOrders, k \in 0..3 :
                \A v \in OutcomesOf("VectorMemoryService") :
                   Verdict(RunWith(q, k, u, p, v)) = Verdict(RunWith(q, k, u, p, ContextOk))
    /\ (sgPc = "loop" /\ received < NumOutcomes) =>
          \A b \in SameButOptional(LoopState) :
             /\ \A v \in OutcomesOf("VectorMemoryService") :
                   Verdict(LoopCheck(Classify(LoopState, ContextOk)))
                      = Verdict(LoopCheck(Classify(b, v)))
             /\ \A s \in Critical : \A r \in OutcomesOf(s) :
                   Verdict(LoopCheck(Classify(LoopState, r)))
                      = Verdict(LoopCheck(Classify(b, r)))
             /\ Verdict(DeadlineArm(LoopState)) = Verdict(DeadlineArm(b))

\* the context call failed and its outcome was received, then the identity
\* call's failure was received: the run failed with the identity cause
C25_Witness ==
    /\ recvOrder = <<"VectorMemoryService", "UserService">>
    /\ taskResult["VectorMemoryService"].err # Nil
    /\ degraded
    /\ via = "userErr"
    /\ ret.err = Errorf("user service failed: ", taskResult["UserService"].err)
    /\ Responded
    /\ statusCode = StatusInternalServerError

----------------------------------------------------------------------------
\* the accumulator of the loop
Accumulator == <<userData, permissionsData, contextData, degraded, received>>

\* C26: the accumulator and the degraded flag are written by the loop only.
\* A step that changes one of them is an iteration of the loop (it receives
\* an outcome or takes the deadline arm); a step of the goroutine of s (its
\* call returns, or it sends) leaves the accumulator, the loop and the
\* response alone and changes only its own position and outcome and, when it
\* sends, the channel by that one outcome.
C26_Step ==
    /\ Accumulator' # Accumulator =>
          /\ sgPc = "loop"
          /\ recvOrder' # recvOrder \/ via' # via
    /\ \A s \in Services :
          (taskPc[s] \in {"calling", "send"} /\ taskPc'[s] # taskPc[s]) =>
             /\ Accumulator' = Accumulator
             /\ UNCHANGED <<sgPc, ret, via, recvOrder, ctxDone, httpPc, statusCode, body>>
             /\ \A t \in Services \ {s} :
                   taskPc'[t] = taskPc[t] /\ taskResult'[t] = taskResult[t]
             /\ \/ taskPc[s] = "calling" /\ results' = results
                \/ taskPc[s] = "send" /\ taskResult'[s] = taskResult[s]
                                      /\ results' = Append(results, taskResult[s])

C26_LoopOnlyWrites == [][C26_Step]_vars

\* the loop has stored the identity payload and flagged the failed context
\* call, while the goroutine of the access check has its outcome in hand
C26_Witness ==
    /\ sgPc = "loop"
    /\ userData # Nil
    /\ degraded
    /\ received = 2
    /\ taskPc["PermissionsService"] = "send"

----------------------------------------------------------------------------
\* what is left of the shared deadline at time t
Remaining(t) == IF tm.ctxDeadline > t THEN tm.ctxDeadline - t ELSE 0

\* C27: each dependency call is bounded by the minimum of the remaining
\* shared deadline and the client's own budget.  The context of the call of
\* s is done at the earlier of the shared deadline and the call's start plus
\* the budget of s, so never after the shared deadline; and a call that has
\* returned lasted no longer than the smaller of what was left of the shared
\* deadline when it started and its budget.
C27_CallBounded ==
    \A s \in Services :
        tm.callPc[s] \in {"inflight", "returned"} =>
            /\ tm.callDeadline[s] <= tm.ctxDeadline
            /\ tm.callDeadline[s] <= tm.callStart[s] + tm.budget[s]
            /\ tm.callDeadline[s] \in {tm.ctxDeadline, tm.callStart[s] + tm.budget[s]}
            /\ tm.callPc[s] = "returned" =>
                  tm.callEnd[s] - tm.callStart[s]
                      <= (IF Remaining(tm.callStart[s]) <= tm.budget[s]
                          THEN Remaining(tm.callStart[s]) ELSE tm.budget[s])

\* the budget of the context client reaches past the shared deadline, and its
\* call was ended at the shared deadline; the budget of the identity client is
\* the tighter one, and its call was ended by it before the shared deadline
C27_Witness ==
    /\ tm.callPc["VectorMemoryService"] = "returned"
    /\ tm.callStart["VectorMemoryService"] + tm.budget["VectorMemoryService"] > tm.ctxDeadline
    /\ tm.callEnd["VectorMemoryService"] = tm.ctxDeadline
    /\ tm.callEnd["VectorMemoryService"] > tm.callStart["VectorMemoryService"]
    /\ tm.callPc["UserService"] = "returned"
    /\ tm.callEnd["UserService"] = tm.callStart["UserService"] + tm.budget["UserService"]
    /\ tm.callEnd["UserService"] < tm.ctxDeadline

----------------------------------------------------------------------------
\* the goroutines that have not sent their outcome
NotSent == {s \in Services : taskPc[s] # "done"}

\* C28: conservation of the three outcomes of one run.  In every state the
\* goroutines that have not sent, the outcomes buffered in the channel and
\* the outcomes received by the loop add up to 3; the channel holds at most 3
\* outcomes, received is at most 3, and no service is classified twice.
C28_Conservation ==
    /\ Cardinality(NotSent) + Len(results) + received = NumOutcomes
    /\ Len(results) <= 3
    /\ received <= 3
    /\ Len(recvOrder) = received
    /\ \A i, j \in 1..Len(recvOrder) : i # j => recvOrder[i] # recvOrder[j]

\* one outcome is not sent yet, one is buffered and one has been received
C28_Witness ==
    /\ sgPc = "loop"
    /\ Cardinality(NotSent) = 1
    /\ Len(results) = 1
    /\ received = 1

----------------------------------------------------------------------------
\* C29: a failure return of scatterGather carries nothing else.  Whenever
\* scatterGather returned an error, its three payload results are nil and its
\* degraded result is false, whatever the loop had stored or flagged by then.
C29_FailureCarriesNothing ==
    (sgPc = "returned" /\ ret.err # Nil) =>
        /\ ret.userData = Nil
        /\ ret.permissionsData = Nil
        /\ ret.contextData = Nil
        /\ ret.degraded = FALSE
        /\ via \in {"userErr", "permErr", "timeout"}

\* the identity payload was stored and the failed context call flagged, then
\* the access check failed: the return has no payload and degraded=false
C29_Witness ==
    /\ sgPc = "returned"
    /\ via = "permErr"
    /\ ret.err # Nil
    /\ userData # Nil
    /\ degraded
    /\ ret.userData = Nil
    /\ ret.degraded = FALSE

----------------------------------------------------------------------------
\* C30: the select has no priority.  Whenever the loop is at its select with
\* an outcome buffered and ctx done, the receive arm and the deadline arm can
\* both be taken; and once scatterGather has returned, no outcome is received
\* or classified any more: the channel only grows by what late goroutines send.
C30_BothArms ==
    (sgPc = "loop" /\ received < NumOutcomes /\ Len(results) > 0 /\ ctxDone) =>
        (ENABLED RecvArm) /\ (ENABLED DoneArm)

C30_Step ==
    sgPc = "returned" =>
        /\ recvOrder' = recvOrder
        /\ Accumulator' = Accumulator
        /\ ret' = ret
        /\ Len(results') >= Len(results)
        /\ SubSeq(results', 1, Len(results)) = results

C30_NoPriority == []C30_BothArms /\ [][C30_Step]_vars

\* both critical calls succeeded and their outcomes were in the channel when
\* the deadline expired; the deadline arm was taken before either was
\* received, the answer is 500 'critical services timeout', and the two
\* outcomes are still in the channel
C30_Witness ==
    /\ firedAt.fired
    /\ Critical \subseteq firedAt.sent
    /\ \A s \in Critical : taskResult[s].err = Nil
    /\ via = "timeout"
    /\ ret.err = <<"critical services timeout">>
    /\ \A s \in Critical : \E i \in 1..Len(results) : results[i].serviceName = s
    /\ Responded
    /\ statusCode = StatusInternalServerError

----------------------------------------------------------------------------
\* the payload the goroutine of a critical service s got from its wrapper
CriticalPayload(s) ==
    IF s = "UserService" THEN taskResult[s].userData ELSE taskResult[s].permissionsData

\* C32: the critical wrappers GetUser and CheckAccess never turn a failure
\* into a success.  When the call under the wrapper returned an error (a
\* backend error or the expiry of its context, with or without a response
\* beside it) the goroutine gets a nil payload and a non-nil error; it gets a
\* payload with a nil error only when that call succeeded, and then the
\* payload is the call's response.
C32_CriticalNeverSwallows ==
    \A s \in Critical :
        InnerOf(s).made =>
            /\ InnerOf(s).err # Nil =>
                  CriticalPayload(s) = Nil /\ taskResult[s].err # Nil
            /\ taskResult[s].err = Nil =>
                  InnerOf(s).err = Nil /\ CriticalPayload(s) = InnerOf(s).payload
            /\ taskResult[s].contextData = Nil

\* the identity call ended by the expiry of its context with a response
\* beside the error, the access check by a backend error: both goroutines
\* hold a nil payload and an error
C32_Witness ==
    /\ InnerOf("UserService").made
    /\ InnerOf("UserService").err = DeadlineExceeded
    /\ InnerOf("UserService").payload # Nil
    /\ taskResult["UserService"].userData = Nil
    /\ taskResult["UserService"].err = StatusError("Internal", "User service timeout")
    /\ InnerOf("PermissionsService").made
    /\ InnerOf("PermissionsService").err \in Errs
    /\ taskResult["PermissionsService"].permissionsData = Nil
    /\ taskResult["PermissionsService"].err = InnerOf("PermissionsService").err

----------------------------------------------------------------------------
\* the request was cancelled while scatterGather was collecting, before the
\* shared deadline expired
CancelledInLoop == firedAt.cancelled /\ ~firedAt.fired /\ firedAt.pc = "loop"

\* C31: cancellation of the request is taken for the expiry of the deadline.
\* The cancellation of the request's context closes ctx.Done(); from then on
\* the deadline arm can be taken while the loop collects, and a step that
\* takes it returns what it returns on expiry: 'critical services timeout'
\* with no payload when a critical payload is missing, and otherwise the
\* stored payloads with degraded=true.  The response does not tell the two
\* apart.
C31_CancelEnables ==
    /\ firedAt.cancelled => ctxDone
    /\ (CancelledInLoop /\ sgPc = "loop" /\ received < NumOutcomes) => ENABLED DoneArm
    /\ (CancelledInLoop /\ via = "timeout") =>
          /\ ret = [NoRet EXCEPT !.err = <<"critical services timeout">>]
          /\ userData = Nil \/ permissionsData = Nil
          /\ Responded =>
                /\ statusCode = StatusInternalServerError
                /\ body.message = <<"Service unavailable: ", "critical services timeout">>
    /\ (CancelledInLoop /\ via = "deadline") =>
          /\ ret = [userData |-> userData, permissionsData |-> permissionsData,
                    contextData |-> contextData, degraded |-> TRUE, err |-> Nil]
          /\ userData # Nil /\ permissionsData # Nil
          /\ Responded => statusCode = StatusOK /\ body.degraded

C31_Step ==
    (sgPc = "loop" /\ via' \in {"timeout", "deadline"}) =>
        /\ ctxDone
        /\ firedAt.cancelled \/ firedAt.fired
        /\ via' = (IF userData = Nil \/ permissionsData = Nil THEN "timeout" ELSE "deadline")
        /\ <<ret', degraded'>> = <<DeadlineArm(LoopState).ret, DeadlineArm(LoopState).degraded>>

C31_CancelIsExpiry == []C31_CancelEnables /\ [][C31_Step]_vars

\* the request was cancelled with the identity payload stored and the access
\* check still running; the deadline never expired, and the answer is 500
\* 'critical services timeout'
C31_Witness ==
    /\ CancelledInLoop
    /\ userData # Nil
    /\ permissionsData = Nil
    /\ via = "timeout"
    /\ Responded
    /\ statusCode = StatusInternalServerError
    /\ body.message = <<"Service unavailable: ", "critical services timeout">>

----------------------------------------------------------------------------
\* the goroutines of the WaitGroup variant that have not run their wg.Done()
WgPending == {s \in Services : taskPc[s] \in {"calling", "send", "exit"}}

\* C33: in the WaitGroup variant the channel is closed only after all three
\* goroutines have completed their send.  When the channel is closed every
\* goroutine has sent and run its wg.Done(); the counter of wg is the number
\* of goroutines that have not; and no goroutine has sent on a closed channel,
\* also when scatterGather has returned early on a critical failure.
C33_CloseAfterSends ==
    /\ wgv.closed => \A s \in Services : taskPc[s] = "done" /\ sends[s] = 1
    /\ wgv.closerPc # "idle" => wgv.wg = Cardinality(WgPending)
    /\ \A s \in Services : taskPc[s] \in {"calling", "send"} => ~wgv.closed
    /\ ~wgv.panicked

\* scatterGather returned on the failure of the identity call, the other two
\* goroutines sent their outcomes, which nobody receives, and the channel was
\* closed after that
C33_Witness ==
    /\ sgPc = "returned"
    /\ via = "userErr"
    /\ recvOrder = <<"UserService">>
    /\ wgv.closed
    /\ Len(results) = 2
    /\ ~wgv.panicked

\* C34: the WaitGroup variant has no deadline arm.  A success is returned
\* only when all three outcomes have been received and the channel is closed
\* and drained; a return before that is a critical failure, brought by the
\* outcome just received; the expiry of the shared deadline changes nothing in
\* scatterGather, and a loop with an empty open channel stays blocked also
\* when ctx is done.
C34_Returns ==
    /\ (sgPc = "returned" /\ ret.err = Nil) =>
          /\ via = "loopEnd"
          /\ wgv.closed
          /\ results = <<>>
          /\ Range(recvOrder) = Services
          /\ \A s \in Services : taskPc[s] = "done"
    /\ (sgPc = "returned" /\ ret.err # Nil) => via \in {"userErr", "permErr"}
    /\ via \notin {"timeout", "deadline"}
    /\ (sgPc = "loop" /\ ctxDone /\ results = <<>> /\ ~wgv.closed) =>
          ~(ENABLED WgRecv) /\ ~(ENABLED WgLoopEnd)

C34_Step ==
    /\ (httpPc = "gather" /\ httpPc' = "gather" /\ ctxDone' # ctxDone) =>
          UNCHANGED <<sgPc, ret, via, recvOrder, results, wgv>>
    /\ (sgPc = "loop" /\ sgPc' = "returned") =>
          \/ ret'.err # Nil /\ recvOrder' # recvOrder
          \/ ret'.err = Nil /\ wgv.closed /\ results = <<>>

C34_NoDeadlineArm == []C34_Returns /\ [][C34_Step]_vars

\* the shared deadline expired before any call had returned, and
\* scatterGather went on to receive all three outcomes and answer 200
C34_Witness ==
    /\ firedAt.fired
    /\ firedAt.pc = "loop"
    /\ firedAt.returned = {}
    /\ firedAt.recvOrder = <<>>
    /\ via = "loopEnd"
    /\ ret.err = Nil
    /\ wgv.closed
    /\ Responded
    /\ statusCode = StatusOK

====
